---------------------------- MODULE Spec2Model ----------------------------
(***************************************************************************)
(* Model of liveactivitypayload/builder.go: the Payload builder, its       *)
(* setters, and MarshalJSON (encoding/json applied to p.content).          *)
(*                                                                         *)
(* A Go interface{} value is a record [kind, s].  The two pointers the     *)
(* builder allocates (&aps{} and &alert{}) are the values ApsPtr and       *)
(* AlertPtr; the structs they point to are the heap cells apsObj and       *)
(* alertObj.  Both struct types are unexported, so a caller can never pass *)
(* a *aps or *alert of its own: one cell of each kind is enough.           *)
(*                                                                         *)
(* JSON bytes are kept as the sequence of their tokens; JSONText           *)
(* concatenates the tokens into the text json.Marshal writes.              *)
(***************************************************************************)
EXTENDS Integers, Sequences, FiniteSets, TLC

VARIABLES
    content,    \* Payload.content: map[string]interface{}
    apsObj,     \* the aps struct NewPayload allocated
    alertObj,   \* the alert struct aps.alert() allocated last
    panicked,   \* a setter's type assertion failed (run-time panic)
    out,        \* what the last MarshalJSON call returned
    calls,      \* number of method calls made on the payload
    called,     \* which kinds of setter have been called so far
    last        \* the kind of the last call made

vars == <<content, apsObj, alertObj, panicked, out, calls, called, last>>

doc == <<content, apsObj, alertObj>>

\* Bound on the number of method calls made on one payload.
MaxCalls == 4

-----------------------------------------------------------------------------
(* Values *)

NilV == [kind |-> "nil", s |-> ""]

StrV(x) == [kind |-> "string", s |-> x]

\* map[string]interface{}{"map": 1}, the value TestCustomMap passes
MapV == [kind |-> "map", s |-> ""]

\* a func value: encoding/json has no encoding for it
FuncV == [kind |-> "func", s |-> ""]

\* make(map[string]interface{}), the value Attributes() stores
EmptyMapV == [kind |-> "emptymap", s |-> ""]

ApsPtr == [kind |-> "*aps", s |-> ""]

AlertPtr == [kind |-> "*alert", s |-> ""]

\* the string, slice and integer arguments the calls are made with
Strs == {"", "a"}

Args == {<<>>, <<"a">>}

Ints == {0, 1}

\* the interface{} arguments the calls are made with
Values == {NilV, StrV("hello"), MapV, FuncV}

\* the top-level keys Custom is called with, in the order encoding/json
\* writes map keys (sorted)
KeyOrder == <<"aps", "key", "mdm">>

Keys == {KeyOrder[i] : i \in 1..Len(KeyOrder)}

aps0 ==
    [Alert |-> NilV, Timestamp |-> 0, Event |-> "", ContentState |-> NilV,
     AttributesType |-> "", Attributes |-> NilV]

alert0 ==
    [Action |-> "", ActionLocKey |-> "", Body |-> "", LaunchImage |-> "",
     LocArgs |-> <<>>, LocKey |-> "", Title |-> "", Subtitle |-> "",
     TitleLocArgs |-> <<>>, TitleLocKey |-> "", SummaryArg |-> "",
     SummaryArgCount |-> 0]

NewPayload == [content |-> ("aps" :> ApsPtr), apsObj |-> aps0]

\* nothing has been serialized yet
NoResult == [err |-> FALSE, bytes |-> <<>>]

Init ==
    /\ content = NewPayload.content
    /\ apsObj = NewPayload.apsObj
    /\ alertObj = alert0
    /\ panicked = FALSE
    /\ out = NoResult
    /\ calls = 0
    /\ called = {}
    /\ last = "NewPayload"

-----------------------------------------------------------------------------
(* encoding/json, as far as MarshalJSON drives it *)

\* a JSON string literal
Q(s) == "\"" \o s \o "\""

\* "name":value
Member(name, toks) == <<Q(name), ":">> \o toks

RECURSIVE Join(_)
Join(ms) ==
    IF Len(ms) = 0 THEN <<>>
    ELSE IF Len(ms) = 1 THEN ms[1]
    ELSE ms[1] \o <<",">> \o Join(Tail(ms))

Object(ms) == <<"{">> \o Join(ms) \o <<"}">>

Array(ss) == <<"[">> \o Join([i \in 1..Len(ss) |-> <<Q(ss[i])>>]) \o <<"]">>

\* a field tagged `json:"name"`: always written
Always(name, toks) == <<Member(name, toks)>>

\* a string field tagged omitempty
OmitEmptyString(name, s) ==
    IF s = "" THEN <<>> ELSE <<Member(name, <<Q(s)>>)>>

\* a []string field tagged omitempty
OmitEmptySlice(name, ss) ==
    IF Len(ss) = 0 THEN <<>> ELSE <<Member(name, Array(ss))>>

\* an int field tagged omitempty
OmitEmptyInt(name, n) ==
    IF n = 0 THEN <<>> ELSE <<Member(name, <<ToString(n)>>)>>

\* an interface{} field tagged omitempty: left out only when the interface is nil
OmitEmptyInterface(name, v, toks) ==
    IF v = NilV THEN <<>> ELSE <<Member(name, toks)>>

\* the alert struct, field by field in declaration order
alertJSON(al) ==
    Object(   OmitEmptyString("action", al.Action)
           \o OmitEmptyString("action-loc-key", al.ActionLocKey)
           \o OmitEmptyString("body", al.Body)
           \o OmitEmptyString("launch-image", al.LaunchImage)
           \o OmitEmptySlice("loc-args", al.LocArgs)
           \o OmitEmptyString("loc-key", al.LocKey)
           \o OmitEmptyString("title", al.Title)
           \o OmitEmptyString("subtitle", al.Subtitle)
           \o OmitEmptySlice("title-loc-args", al.TitleLocArgs)
           \o OmitEmptyString("title-loc-key", al.TitleLocKey)
           \o OmitEmptyString("summary-arg", al.SummaryArg)
           \o OmitEmptyInt("summary-arg-count", al.SummaryArgCount))

\* json.Marshal returns an UnsupportedTypeError for this value
Unsupported(v) == v.kind = "func"

\* an interface{} held in a field of the aps struct
fieldJSON(v, al) ==
    CASE v.kind = "nil" -> <<"null">>
      [] v.kind = "string" -> <<Q(v.s)>>
      [] v.kind = "map" -> Object(<<Member("map", <<"1">>)>>)
      [] v.kind = "emptymap" -> Object(<<>>)
      [] v.kind = "*alert" -> alertJSON(al)
      [] OTHER -> <<>>

\* the aps struct, field by field in declaration order
apsJSON(a, al) ==
    Object(   OmitEmptyInterface("alert", a.Alert, fieldJSON(a.Alert, al))
           \o Always("timestamp", <<ToString(a.Timestamp)>>)
           \o Always("event", <<Q(a.Event)>>)
           \o Always("content_state", fieldJSON(a.ContentState, al))
           \o Always("attributes_type", <<Q(a.AttributesType)>>)
           \o Always("attributes", fieldJSON(a.Attributes, al)))

apsUnsupported(a) ==
    Unsupported(a.Alert) \/ Unsupported(a.ContentState) \/ Unsupported(a.Attributes)

\* a value of the content map
entryJSON(v, a, al) == IF v = ApsPtr THEN apsJSON(a, al) ELSE fieldJSON(v, al)

entryUnsupported(v, a) == Unsupported(v) \/ (v = ApsPtr /\ apsUnsupported(a))

\* json.Marshal(p.content): the map's keys sorted, or the error and no bytes
Marshal(c, a, al) ==
    LET present == SelectSeq(KeyOrder, LAMBDA k : k \in DOMAIN c)
    IN  IF \E k \in DOMAIN c : entryUnsupported(c[k], a)
        THEN [err |-> TRUE, bytes |-> <<>>]
        ELSE [err |-> FALSE,
              bytes |-> Object([i \in 1..Len(present) |->
                                  Member(present[i], entryJSON(c[present[i]], a, al))])]

\* the text the tokens spell
RECURSIVE JSONText(_)
JSONText(toks) == IF Len(toks) = 0 THEN "" ELSE toks[1] \o JSONText(Tail(toks))

-----------------------------------------------------------------------------
(* The unexported accessors *)

\* p.content["aps"].(*aps): the assertion holds
apsOk == "aps" \in DOMAIN content /\ content["aps"] = ApsPtr

\* a.alert(): the struct the returned *alert points to (a.Alert is AlertPtr
\* afterwards either way)
alert == IF apsObj.Alert = AlertPtr THEN alertObj ELSE alert0

\* one more call on the payload, of kind k: "aps" for a setter of the aps
\* block or of its alert, "Attributes" for Attributes(), "Custom" for the
\* top-level setters Custom and Mdm.  A panic unwinds the caller, so no call
\* follows one.
Call(k) ==
    /\ ~panicked
    /\ calls < MaxCalls
    /\ calls' = calls + 1
    /\ called' = called \cup {k}
    /\ last' = k

\* p.aps().<field> = val
SetAps(field, val) ==
    /\ IF apsOk
       THEN apsObj' = [apsObj EXCEPT ![field] = val] /\ panicked' = FALSE
       ELSE apsObj' = apsObj /\ panicked' = TRUE
    /\ UNCHANGED <<content, alertObj, out>>

\* p.aps().alert().<field> = val
SetAlert(field, val) ==
    /\ IF apsOk
       THEN /\ apsObj' = [apsObj EXCEPT !.Alert = AlertPtr]
            /\ alertObj' = [alert EXCEPT ![field] = val]
            /\ panicked' = FALSE
       ELSE /\ UNCHANGED <<apsObj, alertObj>>
            /\ panicked' = TRUE
    /\ UNCHANGED <<content, out>>

-----------------------------------------------------------------------------
(* The exported methods *)

Alert(v) == Call("aps") /\ SetAps("Alert", v)

\* Custom, were it to treat a nil value as "delete the key"
CustomDeletesNil(key, val) ==
    /\ Call("Custom")
    /\ content' = IF val = NilV
                  THEN [k \in DOMAIN content \ {key} |-> content[k]]
                  ELSE [k \in DOMAIN content \cup {key} |->
                          IF k = key THEN val ELSE content[k]]
    /\ UNCHANGED <<apsObj, alertObj, panicked, out>>

\* Custom, were it to rebuild the map from the aps entry and the new key alone
CustomRebuildsMap(key, val) ==
    /\ Call("Custom")
    /\ content' = [k \in {"aps", key} |-> IF k = key THEN val ELSE content[k]]
    /\ UNCHANGED <<apsObj, alertObj, panicked, out>>

Custom(key, val) ==
    /\ Call("Custom")
    /\ content' = [k \in DOMAIN content \cup {key} |->
                     IF k = key THEN val ELSE content[k]]
    /\ UNCHANGED <<apsObj, alertObj, panicked, out>>

AlertTitle(title) == Call("aps") /\ SetAlert("Title", title)

AlertTitleLocKey(key) == Call("aps") /\ SetAlert("TitleLocKey", key)

AlertTitleLocArgs(args) == Call("aps") /\ SetAlert("TitleLocArgs", args)

AlertSubtitle(subtitle) == Call("aps") /\ SetAlert("Subtitle", subtitle)

AlertBody(body) == Call("aps") /\ SetAlert("Body", body)

AlertLaunchImage(image) == Call("aps") /\ SetAlert("LaunchImage", image)

AlertLocArgs(args) == Call("aps") /\ SetAlert("LocArgs", args)

AlertLocKey(key) == Call("aps") /\ SetAlert("LocKey", key)

AlertAction(action) == Call("aps") /\ SetAlert("Action", action)

AlertActionLocKey(key) == Call("aps") /\ SetAlert("ActionLocKey", key)

AlertSummaryArg(key) == Call("aps") /\ SetAlert("SummaryArg", key)

AlertSummaryArgCount(key) == Call("aps") /\ SetAlert("SummaryArgCount", key)

\* Mdm, were it to store under another key
MdmWrongKey(mdm) ==
    /\ Call("Custom")
    /\ content' = [k \in DOMAIN content \cup {"key"} |->
                     IF k = "key" THEN StrV(mdm) ELSE content[k]]
    /\ UNCHANGED <<apsObj, alertObj, panicked, out>>

Mdm(mdm) ==
    /\ Call("Custom")
    /\ content' = [k \in DOMAIN content \cup {"mdm"} |->
                     IF k = "mdm" THEN StrV(mdm) ELSE content[k]]
    /\ UNCHANGED <<apsObj, alertObj, panicked, out>>

Timestamp(t) == Call("aps") /\ SetAps("Timestamp", t)

Event(event) == Call("aps") /\ SetAps("Event", event)

ContentState(contentState) == Call("aps") /\ SetAps("ContentState", contentState)

AttributesType(attributesType) == Call("aps") /\ SetAps("AttributesType", attributesType)

Attributes == Call("Attributes") /\ SetAps("Attributes", EmptyMapV)

\* MarshalJSON, were it to drop the custom keys once they are encoded
MarshalJSONDrainsCustom ==
    /\ ~panicked
    /\ calls < MaxCalls
    /\ calls' = calls + 1
    /\ last' = "MarshalJSON"
    /\ out' = Marshal(content, apsObj, alertObj)
    /\ content' = [k \in DOMAIN content \cap {"aps"} |-> content[k]]
    /\ UNCHANGED <<apsObj, alertObj, panicked, called>>

MarshalJSON ==
    /\ ~panicked
    /\ calls < MaxCalls
    /\ calls' = calls + 1
    /\ last' = "MarshalJSON"
    /\ out' = Marshal(content, apsObj, alertObj)
    /\ UNCHANGED <<content, apsObj, alertObj, panicked, called>>

Next ==
    \/ \E v \in Values : Alert(v)
    \/ \E key \in Keys, val \in Values : Custom(key, val)
    \/ \E title \in Strs : AlertTitle(title)
    \/ \E key \in Strs : AlertTitleLocKey(key)
    \/ \E args \in Args : AlertTitleLocArgs(args)
    \/ \E subtitle \in Strs : AlertSubtitle(subtitle)
    \/ \E body \in Strs : AlertBody(body)
    \/ \E image \in Strs : AlertLaunchImage(image)
    \/ \E args \in Args : AlertLocArgs(args)
    \/ \E key \in Strs : AlertLocKey(key)
    \/ \E action \in Strs : AlertAction(action)
    \/ \E key \in Strs : AlertActionLocKey(key)
    \/ \E key \in Strs : AlertSummaryArg(key)
    \/ \E key \in Ints : AlertSummaryArgCount(key)
    \/ \E mdm \in Strs : Mdm(mdm)
    \/ \E t \in Ints : Timestamp(t)
    \/ \E event \in Strs : Event(event)
    \/ \E contentState \in Values : ContentState(contentState)
    \/ \E attributesType \in Strs : AttributesType(attributesType)
    \/ Attributes
    \/ MarshalJSON

Spec == Init /\ [][Next]_vars

-----------------------------------------------------------------------------
(* Properties *)

AlertFields == DOMAIN alert0

\* the arguments the setter of alert field f is called with
AlertFieldArgs(f) ==
    IF f \in {"LocArgs", "TitleLocArgs"} THEN Args
    ELSE IF f = "SummaryArgCount" THEN Ints
    ELSE Strs

\* a step of the alert setter of field f, called with v
AlertSetterStep(f, v) == Call("aps") /\ SetAlert(f, v)

\* the tokens hold a member called name
HasMember(toks, name) ==
    \E i \in 1..(Len(toks) - 1) : toks[i] = Q(name) /\ toks[i + 1] = ":"

\* the tokens hold the member "name":{}
HasEmptyObjectMember(toks, name) ==
    \E i \in 1..(Len(toks) - 3) :
        /\ toks[i] = Q(name)
        /\ toks[i + 1] = ":"
        /\ toks[i + 2] = "{"
        /\ toks[i + 3] = "}"

\* C1: every setter completes normally in every reachable state, also after
\* Custom("aps", v): no call ever panics.
C1_SettersNeverPanic == ~panicked

\* C2: the Document holds exactly one entry under the key "aps" after
\* construction and after every sequence of operations.
C2_ExactlyOneApsEntry == Cardinality({k \in DOMAIN content : k = "aps"}) = 1

\* reached: the aps entry was overwritten by Custom and other keys were added
C2_Witness ==
    /\ "aps" \in DOMAIN content
    /\ content["aps"] = NilV
    /\ {"key", "mdm"} \subseteq DOMAIN content

\* C3: after any alert setter call aps.alert is a structured alert whose
\* targeted field holds the given value, and whose other fields keep their
\* values if aps.alert was structured before and are the defaults otherwise.
C3_LazyCreateOrReuse ==
    [][\A f \in AlertFields : \A v \in AlertFieldArgs(f) :
          AlertSetterStep(f, v) =>
              /\ apsObj'.Alert = AlertPtr
              /\ alertObj'[f] = v
              /\ \A g \in AlertFields \ {f} :
                    alertObj'[g] = IF apsObj.Alert = AlertPtr
                                   THEN alertObj[g] ELSE alert0[g]]_vars

\* The same statement of the calls made while content["aps"] still holds the
\* *aps: there it holds, so only the failed assertion of C1 breaks C3.
LazyCreateOrReuseWhileApsIntact ==
    [][\A f \in AlertFields : \A v \in AlertFieldArgs(f) :
          (apsOk /\ AlertSetterStep(f, v)) =>
              /\ apsObj'.Alert = AlertPtr
              /\ alertObj'[f] = v
              /\ \A g \in AlertFields \ {f} :
                    alertObj'[g] = IF apsObj.Alert = AlertPtr
                                   THEN alertObj[g] ELSE alert0[g]]_vars

\* C4: a freshly constructed builder serializes to exactly
\* {"aps":{"timestamp":0,"event":"","content-state":null,"attributes-type":""}}.
C4_FreshPayloadText ==
    (called = {} /\ out # NoResult) =>
        /\ ~out.err
        /\ JSONText(out.bytes) =
             "{\"aps\":{\"timestamp\":0,\"event\":\"\",\"content-state\":null,\"attributes-type\":\"\"}}"

\* C5: with no aps-block setter called the aps object is written as {}:
\* NewPayload() encodes to {"aps":{}}, and after only Custom/Mdm calls the aps
\* value is still {} next to the custom keys.
C5_EmptyApsObject ==
    (called \subseteq {"Custom"} /\ apsOk /\ out # NoResult /\ ~out.err) =>
        /\ SubSeq(out.bytes, 1, 5) = <<"{", Q("aps"), ":", "{", "}">>
        /\ called = {} => JSONText(out.bytes) = "{\"aps\":{}}"

\* C6: the key aps.attributes is in the serialized output if and only if
\* Attributes() has been called, and then its value is an empty object.
C6_AttributesIffCalled ==
    [][(MarshalJSON /\ apsOk /\ ~out'.err) =>
          /\ HasMember(out'.bytes, "attributes") <=> "Attributes" \in called
          /\ "Attributes" \in called =>
                HasEmptyObjectMember(out'.bytes, "attributes")]_vars

\* C8: for a key k other than "aps", Custom(k, v) leaves k mapped to v and
\* leaves the aps block and every other top-level key unchanged.
C8_CustomFrame ==
    [][\A k \in Keys \ {"aps"} : \A v \in Values :
          Custom(k, v) =>
              /\ DOMAIN content' = DOMAIN content \cup {k}
              /\ content'[k] = v
              /\ \A j \in DOMAIN content \ {k} : content'[j] = content[j]
              /\ UNCHANGED <<apsObj, alertObj>>]_vars

\* reached: a custom key was overwritten next to another key and a set aps field
C8_Witness ==
    /\ last = "Custom"
    /\ calls = 4
    /\ DOMAIN content = Keys
    /\ content["key"] = MapV
    /\ content["mdm"] = StrV("a")
    /\ apsObj.Event = "a"

\* C9: Mdm(x) does to the payload exactly what Custom("mdm", x) does, in every
\* reachable state and for every string x.
C9_MdmIsCustomMdm ==
    [][\A x \in Strs : Mdm(x) => Custom("mdm", StrV(x))]_vars

\* reached: Mdm has stored its string next to a custom key
C9_Witness ==
    /\ last = "Custom"
    /\ "mdm" \in DOMAIN content
    /\ content["mdm"] = StrV("a")
    /\ "key" \in DOMAIN content
    /\ content["key"] = FuncV

\* C10: MarshalJSON leaves the Document as it was, and a second call with no
\* mutation in between returns what the first returned.
C10_MarshalReadOnlyRepeatable ==
    [][MarshalJSON =>
          /\ UNCHANGED doc
          /\ last = "MarshalJSON" => out' = out]_vars

\* reached: two serializations in a row of a payload that was built up first
C10_Witness ==
    /\ last = "MarshalJSON"
    /\ calls = 4
    /\ called = {"aps", "Custom"}
    /\ ~out.err
    /\ HasMember(out.bytes, "alert")
    /\ HasMember(out.bytes, "mdm")

=============================================================================
